---- MODULE Spec2Model ----
(***************************************************************************)
(* The service worker of the reading hub (src/sw.js): worker generations   *)
(* that install, activate and intercept fetches over one shared            *)
(* CacheStorage.  Every promise continuation of a handler is one step, so  *)
(* that the continuations of different events interleave as the event loop *)
(* allows.                                                                 *)
(***************************************************************************)
EXTENDS Integers, Sequences, FiniteSets, Bags, TLC

\* Number of deployed worker generations (each deployment has its own CACHE_NAME).
MaxGen == 2
\* Number of fetch events dispatched over a run.
MaxFetch == 2
\* Number of sync events dispatched over a run.
MaxSync == 2

Gens == 1..MaxGen

\* sw.js:4. A generation's versioned store name; generation g is the g-th
\* deployed version of the script.
CACHE_NAME(g) == g

\* A store that no generation of this worker created.
ForeignCache == 0

StoreNames == {ForeignCache} \cup {CACHE_NAME(g) : g \in Gens}

\* sw.js:5-15
CACHE_FILES ==
    { "/", "/index.html", "/style.css", "/marked.min.js", "/highlight.min.js",
      "/highlight.css", "/manifest.json", "/icon-192.png", "/icon-512.png" }

\* self.location.origin
SelfOrigin == "self"

Bodies == {"a", "b"}

\* What the promise of caches.match resolves to on a miss, and what a then/catch
\* callback without a return statement yields.
Undefined == [status |-> 0, type |-> "undefined", body |-> "none"]
\* A network fetch that rejected.
NetError == [status |-> 0, type |-> "error", body |-> "none"]
\* No network fetch made (yet).
NoFetch == [status |-> 0, type |-> "nofetch", body |-> "none"]

\* The responses the network can give to a runtime fetch.
NetResponses ==
    { [status |-> 200, type |-> "basic", body |-> b] : b \in Bodies }
    \cup { [status |-> 404, type |-> "basic", body |-> "a"],
           [status |-> 200, type |-> "cors", body |-> "a"] }

\* The fetch events the page can cause.
Requests ==
    { [origin |-> SelfOrigin, path |-> "/index.html", method |-> "GET", destination |-> "document"],
      [origin |-> SelfOrigin, path |-> "/docs", method |-> "GET", destination |-> "document"],
      [origin |-> SelfOrigin, path |-> "/content/a.md", method |-> "GET", destination |-> ""],
      [origin |-> SelfOrigin, path |-> "/content/a.md", method |-> "POST", destination |-> ""],
      [origin |-> "cdn", path |-> "/lib.js", method |-> "GET", destination |-> "script"] }

\* The key a request has in a cache: its URL and method.
Key(req) == [origin |-> req.origin, path |-> req.path, method |-> req.method]

\* A URL string given to the Cache API (cache.addAll, caches.match('/index.html')).
UrlKey(u) == [origin |-> SelfOrigin, path |-> u, method |-> "GET"]

EmptyStore == [k \in {} |-> Undefined]

VARIABLES
    cacheNames,   \* CacheStorage: the names of the existing stores, oldest first
    stores,       \* the entries of every store (EmptyStore when it does not exist)
    epoch,        \* per CACHE_NAME, how many times a store of that name has been
                  \* deleted: tells a Cache object of a deleted store from its successor
    lifecycle,    \* per generation: the worker's state
    wpc,          \* per generation: where its install / activate handler is
    handle,       \* per generation: the epoch of the Cache that install opened
    toDelete,     \* per generation: names its activate handler has still to delete
    skipWaitingCalled, \* per generation
    installFailed, \* per generation: cache.addAll rejected
    active,       \* registration.active (0: none)
    fetches,      \* the fetch events dispatched so far, each with its handler's
                  \* progress: a bag, since two events may be alike in everything
    syncs,        \* the sync events dispatched so far, likewise
    push,         \* the last push event and what its handler did
    file,         \* generate-index.js: the file extractTitle is called on
    title,        \* what that call returned
    root,         \* the content root as readdirSync lists it (index.json apart)
    listing,      \* the entries of folder j, as readdirSync lists them
    env,          \* which file-system operation of the indexer fails, if any
    index,        \* the index array built by the last run
    indexFile,    \* content/index.json
    exitCode,     \* the exit status of the last run
    ixPc          \* how many times the indexer has run

\* The worker's lifecycle, the CacheStorage and the fetch events.
swVars == << cacheNames, stores, epoch, lifecycle, wpc, handle, toDelete,
             skipWaitingCalled, installFailed, active, fetches >>

\* The sync and push events.
evVars == << syncs, push >>

\* The indexer (generate-index.js), which runs at build time.
ixVars == << file, title, root, listing, env, index, indexFile, exitCode, ixPc >>

vars == << swVars, evVars, ixVars >>

Range(s) == { s[i] : i \in 1..Len(s) }

Exists(n) == n \in Range(cacheNames)

Remove(s, n) == SelectSeq(s, LAMBDA x : x # n)

\* The fetch events, and the bag with event f advanced to f2.
Fetches == BagToSet(fetches)

Advance(f, f2) == (fetches (-) SetToBag({f})) (+) SetToBag({f2})

----
\* Cache API

\* caches.open(name): creates the store when there is none.
OpenNames(n) == IF Exists(n) THEN cacheNames ELSE Append(cacheNames, n)

\* cache.put(key, r) on a Cache opened at epoch e of name n: visible in the
\* CacheStorage only while that very store is still there.
Live(n, e) == Exists(n) /\ epoch[n] = e

\* A put that leaves an entry that is already there.
CachePutIfAbsent(n, e, k, r) ==
    IF Live(n, e) /\ k \notin DOMAIN stores[n]
    THEN [stores EXCEPT ![n] = (k :> r) @@ @]
    ELSE stores

CachePut(n, e, k, r) ==
    IF Live(n, e) THEN [stores EXCEPT ![n] = (k :> r) @@ @] ELSE stores

\* caches.match(request): the first store, in creation order, that has the key;
\* a request that is not a GET matches nothing.
MatchIdx(k) == { j \in 1..Len(cacheNames) : k \in DOMAIN stores[cacheNames[j]] }

FirstIdx(S) == CHOOSE j \in S : \A m \in S : j <= m

\* CachesMatch that never finds anything.
CachesMatchNothing(k) == Undefined

CachesMatch(k) ==
    IF k.method # "GET" \/ MatchIdx(k) = {}
    THEN Undefined
    ELSE stores[cacheNames[FirstIdx(MatchIdx(k))]][k]

\* Every response some store holds under k (what a lookup of k can find).
Held(k) == { stores[n][k] : n \in { m \in Range(cacheNames) : k \in DOMAIN stores[m] } }

\* No push event yet.
NoPush == [handled |-> FALSE]

\* The indexer before it has run, and extractTitle before it is called.
NoFile == [name |-> << >>, readable |-> FALSE, content |-> << >>]

NoTitle == [done |-> FALSE, value |-> << >>]

NoIndexFile == [exists |-> FALSE, text |-> << >>]

NoExit == -1

IndexerIdle ==
    /\ file = NoFile
    /\ title = NoTitle
    /\ root = << >>
    /\ listing = << >>
    /\ env = "ok"
    /\ index = << >>
    /\ indexFile = NoIndexFile
    /\ exitCode = NoExit
    /\ ixPc = "idle"

----
\* The browser before any version of the worker is registered.
WorkerInit ==
    /\ \E foreign \in BOOLEAN :
         /\ cacheNames = IF foreign THEN << ForeignCache >> ELSE << >>
         /\ stores = [n \in StoreNames |->
                        IF foreign /\ n = ForeignCache
                        THEN UrlKey("/index.html") :> [status |-> 200, type |-> "basic", body |-> "b"]
                        ELSE EmptyStore]
    /\ epoch = [n \in StoreNames |-> 0]
    /\ lifecycle = [g \in Gens |-> "parsed"]
    /\ wpc = [g \in Gens |-> "idle"]
    /\ handle = [g \in Gens |-> 0]
    /\ toDelete = [g \in Gens |-> {}]
    /\ skipWaitingCalled = [g \in Gens |-> FALSE]
    /\ installFailed = [g \in Gens |-> FALSE]
    /\ active = 0
    /\ fetches = EmptyBag
    /\ syncs = EmptyBag
    /\ push = NoPush

\* The worker with no store left by anything else.
WorkerIdle == WorkerInit /\ cacheNames = << >>

Init == WorkerInit /\ IndexerIdle

----
\* install (sw.js:18-31)

\* A new version of the script is deployed and its install event dispatched;
\* the handler calls caches.open(CACHE_NAME).  The browser runs one
\* install/activate job of a registration at a time.
InstallEvent(g) ==
    /\ lifecycle[g] = "parsed"
    /\ \A h \in Gens : h < g => lifecycle[h] \in {"activated", "redundant"}
    /\ lifecycle' = [lifecycle EXCEPT ![g] = "installing"]
    /\ wpc' = [wpc EXCEPT ![g] = "open"]
    /\ UNCHANGED << cacheNames, stores, epoch, handle, toDelete,
                    skipWaitingCalled, installFailed, active, fetches >>

\* caches.open(CACHE_NAME) resolves.
InstallOpen(g) ==
    /\ wpc[g] = "open"
    /\ cacheNames' = OpenNames(CACHE_NAME(g))
    /\ handle' = [handle EXCEPT ![g] = epoch[CACHE_NAME(g)]]
    /\ wpc' = [wpc EXCEPT ![g] = "addAll"]
    /\ UNCHANGED << stores, epoch, lifecycle, toDelete, skipWaitingCalled,
                    installFailed, active, fetches >>

\* What the server holds for the application shell files while generation g is
\* being installed: consecutive deployments ship different files.
Deployed(g) == IF g % 2 = 1 THEN "a" ELSE "b"

\* AddAll with the last file of the list left out.
AddAllButLast(store, b) ==
    [k \in { UrlKey(u) : u \in CACHE_FILES \ {"/icon-512.png"} } |->
        [status |-> 200, type |-> "basic", body |-> b]] @@ store

\* What cache.addAll(CACHE_FILES) leaves in the store when every fetch gave an
\* ok response (here with body b): one entry per URL, written as one batch.
AddAll(store, b) ==
    [k \in { UrlKey(u) : u \in CACHE_FILES } |->
        [status |-> 200, type |-> "basic", body |-> b]] @@ store

\* cache.addAll(CACHE_FILES) resolves; the next then-callback runs.
InstallAddAll(g) ==
    /\ wpc[g] = "addAll"
    /\ stores' = IF Live(CACHE_NAME(g), handle[g])
                 THEN [stores EXCEPT ![CACHE_NAME(g)] = AddAll(@, Deployed(g))]
                 ELSE stores
    /\ wpc' = [wpc EXCEPT ![g] = "skipWaiting"]
    /\ UNCHANGED << cacheNames, epoch, lifecycle, handle, toDelete,
                    skipWaitingCalled, installFailed, active, fetches >>

\* InstallRejected with the rejection swallowed: the chain goes on to skipWaiting.
InstallRejectedSwallowed(g) ==
    /\ wpc[g] = "addAll"
    /\ installFailed' = [installFailed EXCEPT ![g] = TRUE]
    /\ wpc' = [wpc EXCEPT ![g] = "skipWaiting"]
    /\ UNCHANGED << cacheNames, stores, epoch, lifecycle, handle, toDelete,
                    skipWaitingCalled, active, fetches >>

\* cache.addAll rejects because the fetch of one of the files failed (or was
\* not ok), whichever file it is: nothing is written, no callback of the chain
\* runs, the promise given to waitUntil rejects and the browser discards the
\* worker.
InstallRejected(g) ==
    /\ wpc[g] = "addAll"
    /\ CACHE_FILES # {}
    /\ installFailed' = [installFailed EXCEPT ![g] = TRUE]
    /\ lifecycle' = [lifecycle EXCEPT ![g] = "redundant"]
    /\ wpc' = [wpc EXCEPT ![g] = "done"]
    /\ UNCHANGED << cacheNames, stores, epoch, handle, toDelete,
                    skipWaitingCalled, active, fetches >>

\* self.skipWaiting() is called and resolves: waitUntil's promise fulfils and
\* the worker is installed.
InstallSkipWaiting(g) ==
    /\ wpc[g] = "skipWaiting"
    /\ skipWaitingCalled' = [skipWaitingCalled EXCEPT ![g] = TRUE]
    /\ lifecycle' = [lifecycle EXCEPT ![g] = "installed"]
    /\ wpc' = [wpc EXCEPT ![g] = "idle"]
    /\ UNCHANGED << cacheNames, stores, epoch, handle, toDelete,
                    installFailed, active, fetches >>

----
\* activate (sw.js:34-52)

\* The installed worker, having skipped waiting, becomes the registration's
\* active worker; the one it replaces becomes redundant but finishes what it
\* is doing.  The handler calls caches.keys().
ActivateEvent(g) ==
    /\ lifecycle[g] = "installed"
    /\ skipWaitingCalled[g] \/ active = 0
    /\ lifecycle' = [h \in Gens |->
                        IF h = g THEN "activating"
                        ELSE IF h = active THEN "redundant"
                        ELSE lifecycle[h]]
    /\ active' = g
    /\ wpc' = [wpc EXCEPT ![g] = "keys"]
    /\ UNCHANGED << cacheNames, stores, epoch, handle, toDelete,
                    skipWaitingCalled, installFailed, fetches >>

\* Every name, the handler's own included.
StaleNamesAll(g, names) == names

\* sw.js:39-44: the names the handler deletes, out of those caches.keys() gave.
StaleNames(g, names) == { n \in names : n # CACHE_NAME(g) }

\* caches.keys() resolves; caches.delete is called for every stale name.
ActivateKeys(g) ==
    /\ wpc[g] = "keys"
    /\ toDelete' = [toDelete EXCEPT ![g] = StaleNames(g, Range(cacheNames))]
    /\ wpc' = [wpc EXCEPT ![g] = "delete"]
    /\ UNCHANGED << cacheNames, stores, epoch, lifecycle, handle,
                    skipWaitingCalled, installFailed, active, fetches >>

\* One caches.delete(cacheName) takes effect.
ActivateDelete(g, n) ==
    /\ wpc[g] = "delete"
    /\ n \in toDelete[g]
    /\ toDelete' = [toDelete EXCEPT ![g] = @ \ {n}]
    /\ cacheNames' = Remove(cacheNames, n)
    /\ stores' = [stores EXCEPT ![n] = EmptyStore]
    /\ epoch' = [epoch EXCEPT ![n] = IF Exists(n) /\ n # ForeignCache THEN @ + 1 ELSE @]
    /\ UNCHANGED << lifecycle, wpc, handle, skipWaitingCalled, installFailed,
                    active, fetches >>

\* Promise.all resolves, self.clients.claim() resolves: the worker is activated.
ActivateClaim(g) ==
    /\ wpc[g] = "delete"
    /\ toDelete[g] = {}
    /\ wpc' = [wpc EXCEPT ![g] = "done"]
    /\ lifecycle' = [lifecycle EXCEPT ![g] = "activated"]
    /\ UNCHANGED << cacheNames, stores, epoch, handle, toDelete,
                    skipWaitingCalled, installFailed, active, fetches >>

----
\* fetch (sw.js:55-101)

\* Eligible without the origin test, and without the method test.
EligibleAnyOrigin(req) == req.method = "GET"

EligibleAnyMethod(req) == req.origin = SelfOrigin

\* sw.js:57-64: the two early returns; only a same-origin GET is intercepted.
Eligible(req) == req.method = "GET" /\ req.origin = SelfOrigin

\* IsCacheable without the test of the response type.
IsCacheableAnyType(r) == r.status = 200

\* sw.js:78: a response the handler stores.
IsCacheable(r) == r.status = 200 /\ r.type = "basic"

\* The handler's record of one fetch event as it is dispatched: respondWith is
\* called with the promise of caches.match(...).then(...) only for an eligible
\* request, otherwise the handler has returned and the browser serves the
\* request itself.
NewFetch(g, req) ==
    [ gen |-> g, req |-> req,
      pc |-> IF Eligible(req) THEN "match" ELSE "passthrough",
      respondWith |-> Eligible(req),
      settled |-> "pending",      \* the promise given to respondWith
      response |-> Undefined,     \* what it settled with
      cacheReads |-> 0, cacheWrites |-> 0, netFetches |-> 0,
      hits |-> {},                \* the entries held under the request at lookup
      shellHits |-> {},           \* the entries held under /index.html at fallback
      net |-> NoFetch,            \* the outcome of the handler's network fetch
      handle |-> 0 ]

\* A fetch event reaches the worker that controls the page.
FetchEvent(g, req) ==
    /\ BagCardinality(fetches) < MaxFetch
    /\ active = g
    /\ lifecycle[g] = "activated"
    /\ fetches' = fetches (+) SetToBag({NewFetch(g, req)})
    /\ UNCHANGED << cacheNames, stores, epoch, lifecycle, wpc, handle, toDelete,
                    skipWaitingCalled, installFailed, active >>

\* The callback that goes to the network on a hit as well.
OnMatchRefetch(f, m) == [f EXCEPT !.pc = "fetch"]

\* sw.js:68-75: the callback on the result m of caches.match(event.request).
OnMatch(f, m) ==
    IF m # Undefined
    THEN [f EXCEPT !.response = m, !.settled = "resolved", !.pc = "done"]
    ELSE [f EXCEPT !.pc = "fetch"]

\* caches.match(event.request) resolves and its callback runs.
FetchMatch(f) ==
    /\ f.pc = "match"
    /\ LET k == Key(f.req)
       IN fetches' = Advance(f,
              OnMatch([f EXCEPT !.hits = Held(k), !.cacheReads = @ + 1],
                      CachesMatch(k)))
    /\ UNCHANGED << cacheNames, stores, epoch, lifecycle, wpc, handle, toDelete,
                    skipWaitingCalled, installFailed, active >>

\* OnResponse without the cache write.
OnResponseNoWrite(f, r) ==
    [f EXCEPT !.response = r, !.settled = "resolved", !.pc = "done"]

\* sw.js:76-92: the callback on the network response r.  An uncacheable
\* response is returned as it is; otherwise caches.open(CACHE_NAME) is called,
\* its promise is left on its own, and the response is returned.
OnResponse(f, r) ==
    IF ~IsCacheable(r)
    THEN [f EXCEPT !.response = r, !.settled = "resolved", !.pc = "done"]
    ELSE [f EXCEPT !.response = r, !.settled = "resolved", !.pc = "open"]

\* fetch(event.request) resolves with r.
FetchNetwork(f, r) ==
    /\ f.pc = "fetch"
    /\ fetches' = Advance(f,
           OnResponse([f EXCEPT !.net = r, !.netFetches = @ + 1], r))
    /\ UNCHANGED << cacheNames, stores, epoch, lifecycle, wpc, handle, toDelete,
                    skipWaitingCalled, installFailed, active >>

\* OnFailure without the shell fallback, and OnFailure rethrowing the error for
\* anything but a document.
OnFailureNoFallback(f) ==
    [f EXCEPT !.response = Undefined, !.settled = "resolved", !.pc = "done"]

OnFailureRethrow(f) ==
    IF f.req.destination = "document"
    THEN [f EXCEPT !.pc = "fallback"]
    ELSE [f EXCEPT !.settled = "rejected", !.pc = "done"]

\* sw.js:93-98: the catch callback.  For a document it returns the promise of
\* caches.match('/index.html'); for anything else it returns nothing, which
\* fulfils the chain with undefined.
OnFailure(f) ==
    IF f.req.destination = "document"
    THEN [f EXCEPT !.pc = "fallback"]
    ELSE [f EXCEPT !.response = Undefined, !.settled = "resolved", !.pc = "done"]

\* fetch(event.request) rejects.
FetchNetworkFail(f) ==
    /\ f.pc = "fetch"
    /\ fetches' = Advance(f,
           OnFailure([f EXCEPT !.net = NetError, !.netFetches = @ + 1]))
    /\ UNCHANGED << cacheNames, stores, epoch, lifecycle, wpc, handle, toDelete,
                    skipWaitingCalled, installFailed, active >>

\* sw.js:96: caches.match('/index.html') resolves, and with it the chain.
FetchFallback(f) ==
    /\ f.pc = "fallback"
    /\ LET k == UrlKey("/index.html")
       IN fetches' = Advance(f,
              [f EXCEPT !.response = CachesMatch(k), !.settled = "resolved",
                        !.shellHits = Held(k), !.cacheReads = @ + 1,
                        !.pc = "done"])
    /\ UNCHANGED << cacheNames, stores, epoch, lifecycle, wpc, handle, toDelete,
                    skipWaitingCalled, installFailed, active >>

\* sw.js:86: caches.open(CACHE_NAME) resolves, in the worker that took the event.
FetchOpen(f) ==
    /\ f.pc = "open"
    /\ LET n == CACHE_NAME(f.gen)
       IN /\ cacheNames' = OpenNames(n)
          /\ fetches' = Advance(f, [f EXCEPT !.handle = epoch[n], !.pc = "put"])
    /\ UNCHANGED << stores, epoch, lifecycle, wpc, handle, toDelete,
                    skipWaitingCalled, installFailed, active >>

\* sw.js:88: cache.put(event.request, responseToCache) takes effect.
FetchPut(f) ==
    /\ f.pc = "put"
    /\ stores' = CachePut(CACHE_NAME(f.gen), f.handle, Key(f.req), f.net)
    /\ fetches' = Advance(f, [f EXCEPT !.cacheWrites = @ + 1, !.pc = "done"])
    /\ UNCHANGED << cacheNames, epoch, lifecycle, wpc, handle, toDelete,
                    skipWaitingCalled, installFailed, active >>

----
\* The steps of install, activate and fetch.
Next ==
    \/ \E g \in Gens : InstallEvent(g) /\ UNCHANGED << evVars, ixVars >>
    \/ \E g \in Gens : InstallOpen(g) /\ UNCHANGED << evVars, ixVars >>
    \/ \E g \in Gens : InstallAddAll(g) /\ UNCHANGED << evVars, ixVars >>
    \/ \E g \in Gens : InstallRejected(g) /\ UNCHANGED << evVars, ixVars >>
    \/ \E g \in Gens : InstallSkipWaiting(g) /\ UNCHANGED << evVars, ixVars >>
    \/ \E g \in Gens : ActivateEvent(g) /\ UNCHANGED << evVars, ixVars >>
    \/ \E g \in Gens : ActivateKeys(g) /\ UNCHANGED << evVars, ixVars >>
    \/ \E g \in Gens, n \in StoreNames : ActivateDelete(g, n) /\ UNCHANGED << evVars, ixVars >>
    \/ \E g \in Gens : ActivateClaim(g) /\ UNCHANGED << evVars, ixVars >>
    \/ \E g \in Gens, req \in Requests : FetchEvent(g, req) /\ UNCHANGED << evVars, ixVars >>
    \/ \E f \in Fetches : FetchMatch(f) /\ UNCHANGED << evVars, ixVars >>
    \/ \E f \in Fetches, r \in NetResponses : FetchNetwork(f, r) /\ UNCHANGED << evVars, ixVars >>
    \/ \E f \in Fetches : FetchNetworkFail(f) /\ UNCHANGED << evVars, ixVars >>
    \/ \E f \in Fetches : FetchFallback(f) /\ UNCHANGED << evVars, ixVars >>
    \/ \E f \in Fetches : FetchOpen(f) /\ UNCHANGED << evVars, ixVars >>
    \/ \E f \in Fetches : FetchPut(f) /\ UNCHANGED << evVars, ixVars >>

Spec == Init /\ [][Next]_vars

----
\* sync (sw.js:104-121)

SyncTags == {"sync-content", "periodic"}

\* The sync events, and the bag with event e advanced to e2.
Syncs == BagToSet(syncs)

AdvanceSync(e, e2) == (syncs (-) SetToBag({e})) (+) SetToBag({e2})

\* Ok that takes every response for successful.
OkAlways(r) == TRUE

\* sw.js:115: response.ok.
Ok(r) == r.status >= 200 /\ r.status <= 299

\* sw.js:105-107: only the tag 'sync-content' calls syncContent(), which calls
\* caches.open(CACHE_NAME) first; for another tag the handler just returns.
NewSync(g, tag) ==
    [ gen |-> g, tag |-> tag,
      pc |-> IF tag = "sync-content" THEN "open" ELSE "ignored",
      waitUntil |-> (tag = "sync-content"),
      settled |-> "pending",      \* the promise of syncContent()
      net |-> NoFetch,
      cacheOpens |-> 0, cacheWrites |-> 0, netFetches |-> 0,
      handle |-> 0 ]

\* A sync event reaches the active worker.  The browser fires no sync event
\* while the promise an earlier one handed to waitUntil is pending.
SyncEvent(g, tag) ==
    /\ BagCardinality(syncs) < MaxSync
    /\ \A e \in Syncs : e.pc \in {"done", "ignored"}
    /\ active = g
    /\ lifecycle[g] = "activated"
    /\ syncs' = syncs (+) SetToBag({NewSync(g, tag)})
    /\ UNCHANGED << swVars, push >>

\* sw.js:112-114: caches.open(CACHE_NAME) resolves and fetch is called.
SyncOpen(e) ==
    /\ e.pc = "open"
    /\ LET n == CACHE_NAME(e.gen)
       IN /\ cacheNames' = OpenNames(n)
          /\ syncs' = AdvanceSync(e, [e EXCEPT !.handle = epoch[n],
                                               !.cacheOpens = @ + 1, !.pc = "fetch"])
    /\ UNCHANGED << stores, epoch, lifecycle, wpc, handle, toDelete,
                    skipWaitingCalled, installFailed, active, fetches, push >>

\* sw.js:114-117: the response r is there; cache.put is called when it is ok,
\* otherwise syncContent() is over.
OnSyncResponse(e, r) ==
    IF Ok(r)
    THEN [e EXCEPT !.pc = "put"]
    ELSE [e EXCEPT !.pc = "done", !.settled = "resolved"]

\* fetch('/content/index.json') resolves with r.
SyncFetched(e, r) ==
    /\ e.pc = "fetch"
    /\ syncs' = AdvanceSync(e,
           OnSyncResponse([e EXCEPT !.net = r, !.netFetches = @ + 1], r))
    /\ UNCHANGED << swVars, push >>

\* sw.js:118-120: fetch rejects; the catch block logs and syncContent() is over.
SyncFetchFail(e) ==
    /\ e.pc = "fetch"
    /\ syncs' = AdvanceSync(e, [e EXCEPT !.net = NetError, !.netFetches = @ + 1,
                                         !.pc = "done", !.settled = "resolved"])
    /\ UNCHANGED << swVars, push >>

\* sw.js:116: cache.put('/content/index.json', response.clone()) takes effect.
SyncPut(e) ==
    /\ e.pc = "put"
    /\ stores' = CachePut(CACHE_NAME(e.gen), e.handle, UrlKey("/content/index.json"), e.net)
    /\ syncs' = AdvanceSync(e, [e EXCEPT !.cacheWrites = @ + 1,
                                         !.pc = "done", !.settled = "resolved"])
    /\ UNCHANGED << cacheNames, epoch, lifecycle, wpc, handle, toDelete,
                    skipWaitingCalled, installFailed, active, fetches, push >>

----
\* push (sw.js:124-133)

\* What a push message can carry: nothing, or a JSON object with or without
\* title and body.
Payloads ==
    { [present |-> FALSE, hasTitle |-> FALSE, hasBody |-> FALSE] }
    \cup { [present |-> TRUE, hasTitle |-> t, hasBody |-> b] : t, b \in BOOLEAN }

\* sw.js:125-132.  Without a payload event.data is null and event.data.json()
\* throws a TypeError.  Otherwise showNotification is called with data.title
\* and data.body as they are: an absent title is shown as the text "undefined",
\* an absent body as no body.
OnPush(p) ==
    IF ~p.present
    THEN [ handled |-> TRUE, payload |-> p, threw |-> TRUE, shown |-> FALSE,
           title |-> "", body |-> "" ]
    ELSE [ handled |-> TRUE, payload |-> p, threw |-> FALSE, shown |-> TRUE,
           title |-> IF p.hasTitle THEN "title" ELSE "undefined",
           body |-> IF p.hasBody THEN "body" ELSE "" ]

\* A push event reaches the active worker.
PushEvent(g, p) ==
    /\ active = g
    /\ lifecycle[g] = "activated"
    /\ push' = OnPush(p)
    /\ UNCHANGED << swVars, syncs >>

\* The steps of install, activate, sync and push.
EventNext ==
    \/ \E g \in Gens : InstallEvent(g) /\ UNCHANGED << evVars, ixVars >>
    \/ \E g \in Gens : InstallOpen(g) /\ UNCHANGED << evVars, ixVars >>
    \/ \E g \in Gens : InstallAddAll(g) /\ UNCHANGED << evVars, ixVars >>
    \/ \E g \in Gens : InstallRejected(g) /\ UNCHANGED << evVars, ixVars >>
    \/ \E g \in Gens : InstallSkipWaiting(g) /\ UNCHANGED << evVars, ixVars >>
    \/ \E g \in Gens : ActivateEvent(g) /\ UNCHANGED << evVars, ixVars >>
    \/ \E g \in Gens : ActivateKeys(g) /\ UNCHANGED << evVars, ixVars >>
    \/ \E g \in Gens, n \in StoreNames : ActivateDelete(g, n) /\ UNCHANGED << evVars, ixVars >>
    \/ \E g \in Gens : ActivateClaim(g) /\ UNCHANGED << evVars, ixVars >>
    \/ \E g \in Gens, tag \in SyncTags : SyncEvent(g, tag) /\ UNCHANGED ixVars
    \/ \E e \in Syncs : SyncOpen(e) /\ UNCHANGED ixVars
    \/ \E e \in Syncs, r \in NetResponses : SyncFetched(e, r) /\ UNCHANGED ixVars
    \/ \E e \in Syncs : SyncFetchFail(e) /\ UNCHANGED ixVars
    \/ \E e \in Syncs : SyncPut(e) /\ UNCHANGED ixVars
    \/ \E g \in Gens, p \in Payloads : PushEvent(g, p) /\ UNCHANGED ixVars

EventSpec == Init /\ [][EventNext]_vars

----
\* extractTitle (generate-index.js:22-40).  A string is the sequence of its
\* characters.

\* Longest file content considered.
MaxLen == 8
\* Longest content considered for the file named '.md'.
MaxShort == 3

\* The characters of a file's content: the heading mark, a blank, a letter and
\* the line break.
Chars == {"#", " ", "a", "\n"}

Contents == UNION { [1..n -> Chars] : n \in 0..MaxLen }

\* '.md'
MdExt == << ".", "m", "d" >>

\* '# '
HeadingMark == << "#", " " >>

\* File names extractTitle is called on: every one ends in '.md'.
TitleNames == { << "a" >> \o MdExt, MdExt }

\* String.prototype.startsWith / endsWith.
StartsWith(s, p) == Len(s) >= Len(p) /\ SubSeq(s, 1, Len(p)) = p

EndsWith(s, p) == Len(s) >= Len(p) /\ SubSeq(s, Len(s) - Len(p) + 1, Len(s)) = p

\* What String.prototype.trim takes for white space.
IsSpace(c) == c \in {" ", "\n", "\t", "\r"}

RECURSIVE TrimStart(_)
TrimStart(s) ==
    IF s # << >> /\ IsSpace(Head(s)) THEN TrimStart(Tail(s)) ELSE s

RECURSIVE TrimEnd(_)
TrimEnd(s) ==
    IF s # << >> /\ IsSpace(s[Len(s)]) THEN TrimEnd(SubSeq(s, 1, Len(s) - 1)) ELSE s

\* String.prototype.trim.
Trim(s) == TrimEnd(TrimStart(s))

\* content.split('\n'): the pieces between the line breaks, empty ones included.
RECURSIVE Split(_)
Split(s) ==
    LET breaks == { i \in 1..Len(s) : s[i] = "\n" }
    IN IF breaks = {} THEN << s >>
       ELSE LET i == CHOOSE j \in breaks : \A m \in breaks : j <= m
            IN << SubSeq(s, 1, i - 1) >> \o Split(SubSeq(s, i + 1, Len(s)))

\* generate-index.js:27-28: line.trim().startsWith('# ').
IsHeading(line) == StartsWith(Trim(line), HeadingMark)

\* The last heading line instead of the first (0: none).
LastHeading(lines) ==
    LET hs == { i \in 1..Len(lines) : IsHeading(lines[i]) }
    IN IF hs = {} THEN 0 ELSE CHOOSE i \in hs : \A m \in hs : m <= i

\* generate-index.js:26-32: the loop returns at the first heading line; the
\* index of that line (0: the loop ends without returning).
RECURSIVE FirstHeadingFrom(_, _)
FirstHeadingFrom(lines, i) ==
    IF i > Len(lines) THEN 0
    ELSE IF IsHeading(lines[i]) THEN i
    ELSE FirstHeadingFrom(lines, i + 1)

FirstHeading(lines) == FirstHeadingFrom(lines, 1)

\* generate-index.js:30: trimmed.substring(2).trim().
HeadingText(line) == Trim(SubSeq(Trim(line), Len(HeadingMark) + 1, Len(Trim(line))))

\* basename that leaves the extension on.
BasenameWithExt(name, ext) == name

\* path.basename(filePath, '.md') for a path that ends in the file name `name`
\* after a directory: the name without a trailing ext, except that a name
\* that is nothing but ext is returned whole.
Basename(name, ext) ==
    IF EndsWith(name, ext) /\ Len(name) > Len(ext)
    THEN SubSeq(name, 1, Len(name) - Len(ext))
    ELSE name

\* extractTitle without its try/catch: a read error escapes to the caller.
ExtractTitleUncaught(f) ==
    IF ~f.readable THEN [threw |-> TRUE, value |-> << >>]
    ELSE LET lines == Split(f.content)
             i == FirstHeading(lines)
         IN [threw |-> FALSE,
             value |-> IF i # 0 THEN HeadingText(lines[i]) ELSE Basename(f.name, MdExt)]

\* generate-index.js:22-40.  readFileSync throws for a file that cannot be read
\* (and for a directory); the catch block returns the base name.
ExtractTitle(f) ==
    IF ~f.readable THEN [threw |-> FALSE, value |-> Basename(f.name, MdExt)]
    ELSE LET lines == Split(f.content)
             i == FirstHeading(lines)
         IN [threw |-> FALSE,
             value |-> IF i # 0 THEN HeadingText(lines[i]) ELSE Basename(f.name, MdExt)]

\* The files extractTitle is called on.
TitleFiles ==
    { [name |-> n, readable |-> TRUE, content |-> c] :
          n \in TitleNames \ {MdExt}, c \in Contents }
    \cup { [name |-> MdExt, readable |-> TRUE, content |-> c] :
              c \in { d \in Contents : Len(d) <= MaxShort } }
    \cup { [name |-> n, readable |-> FALSE, content |-> << >>] : n \in TitleNames }

TitleInit ==
    /\ WorkerIdle
    /\ file \in TitleFiles
    /\ title = NoTitle
    /\ root = << >>
    /\ listing = << >>
    /\ env = "ok"
    /\ index = << >>
    /\ indexFile = NoIndexFile
    /\ exitCode = NoExit
    /\ ixPc = "idle"

\* extractTitle(filePath) is called and returns.
ExtractTitleCall ==
    /\ ~title.done
    /\ title' = [done |-> TRUE, value |-> ExtractTitle(file).value]
    /\ UNCHANGED << swVars, evVars, file, root, listing, env, index, indexFile,
                    exitCode, ixPc >>

TitleNext == ExtractTitleCall

TitleSpec == TitleInit /\ [][TitleNext]_vars

----
\* Comparison of names (generate-index.js:45-47, 124)

Digits == << "0", "1", "2", "3", "4", "5", "6", "7", "8", "9" >>

Lowers == << "a", "b", "c", "d", "e", "f", "g", "h", "i", "j", "k", "l", "m",
             "n", "o", "p", "q", "r", "s", "t", "u", "v", "w", "x", "y", "z" >>

Uppers == << "A", "B", "C", "D", "E", "F", "G", "H", "I", "J", "K", "L", "M",
             "N", "O", "P", "Q", "R", "S", "T", "U", "V", "W", "X", "Y", "Z" >>

\* The place of c in s (0: not there).
IndexIn(s, c) ==
    IF \E i \in 1..Len(s) : s[i] = c THEN CHOOSE i \in 1..Len(s) : s[i] = c ELSE 0

DigitSet == { Digits[i] : i \in 1..Len(Digits) }

UpperSet == { Uppers[i] : i \in 1..Len(Uppers) }

IsDigit(c) == c \in DigitSet

IsUpper(c) == c \in UpperSet

DigitVal(c) == IndexIn(Digits, c) - 1


ToLower(c) == IF IsUpper(c) THEN Lowers[IndexIn(Uppers, c)] ELSE c

\* The UTF-16 code unit of a character of a name.
CodeUnit(c) ==
    IF c = "." THEN 46
    ELSE IF c = "/" THEN 47
    ELSE IF IsDigit(c) THEN 48 + DigitVal(c)
    ELSE IF IsUpper(c) THEN 65 + IndexIn(Uppers, c) - 1
    ELSE 97 + IndexIn(Lowers, c) - 1

\* The primary collation weight of a character: punctuation, then digits, then
\* letters in alphabetical order whatever their case.
WeightOf(c) ==
    IF c = "." THEN 1
    ELSE IF c = "/" THEN 2
    ELSE IF IsDigit(c) THEN 3 + DigitVal(c)
    ELSE 13 + IndexIn(Lowers, ToLower(c))

\* The characters of names.
NameChars == {".", "/"} \cup DigitSet \cup UpperSet \cup { Lowers[i] : i \in 1..Len(Lowers) }

\* The weights as a table.
Weights == [c \in NameChars |-> WeightOf(c)]

Weight(c) == Weights[c]

\* The value of a run of digits.
RECURSIVE NumVal(_)
NumVal(ds) ==
    IF ds = << >> THEN 0 ELSE 10 * NumVal(SubSeq(ds, 1, Len(ds) - 1)) + DigitVal(ds[Len(ds)])

\* The length of the run of digits s begins with.
RECURSIVE DigitRun(_)
DigitRun(s) ==
    IF s # << >> /\ IsDigit(Head(s)) THEN 1 + DigitRun(Tail(s)) ELSE 0

\* A name as the collation keys of numeric collation: a run of digits is one
\* key, ordered by its value among the digits; any other character is a key of
\* its own.
RECURSIVE NumericKeys(_)
NumericKeys(s) ==
    IF s = << >> THEN << >>
    ELSE LET n == DigitRun(s)
         IN IF n > 0
            THEN << [w |-> 3, v |-> NumVal(SubSeq(s, 1, n))] >>
                     \o NumericKeys(SubSeq(s, n + 1, Len(s)))
            ELSE << [w |-> Weight(Head(s)), v |-> 0] >> \o NumericKeys(Tail(s))

\* A name as collation keys without numeric collation.
PlainKeys(s) == [i \in 1..Len(s) |-> [w |-> Weight(s[i]), v |-> 0]]

KeyLess(x, y) == x.w < y.w \/ (x.w = y.w /\ x.v < y.v)

\* Lexicographic comparison of two sequences of keys: -1, 0 or 1.
CompareKeys(a, b) ==
    LET diff == { i \in 1..Len(a) : i > Len(b) \/ a[i] # b[i] }
                \cup { i \in 1..Len(b) : i > Len(a) }
    IN IF diff = {} THEN 0
       ELSE LET i == CHOOSE j \in diff : \A m \in diff : j <= m
            IN IF i > Len(a) THEN -1
               ELSE IF i > Len(b) THEN 1
               ELSE IF KeyLess(a[i], b[i]) THEN -1 ELSE 1

\* Comparison by UTF-16 code units.
CodeUnitSort(a, b) ==
    CompareKeys([i \in 1..Len(a) |-> [w |-> CodeUnit(a[i]), v |-> 0]],
                [i \in 1..Len(b) |-> [w |-> CodeUnit(b[i]), v |-> 0]])

\* generate-index.js:45-47: a.localeCompare(b, undefined, { numeric: true,
\* sensitivity: 'base' }): case is ignored, runs of digits compare by value.
NaturalSort(a, b) == CompareKeys(NumericKeys(a), NumericKeys(b))

\* generate-index.js:124: a.name.localeCompare(b.name) with the default
\* options: alphabetical order first; names alike but for case are ordered by
\* their first difference in case, lower case first.
LocaleCompare(a, b) ==
    LET primary == CompareKeys(PlainKeys(a), PlainKeys(b))
        diff == { i \in 1..Len(a) : a[i] # b[i] }
    IN IF primary # 0 THEN primary
       ELSE IF diff = {} THEN 0
       ELSE LET i == CHOOSE j \in diff : \A m \in diff : j <= m
            IN IF IsUpper(b[i]) THEN -1 ELSE 1

\* Array.prototype.sort, which is stable, with naturalSort: each name goes
\* behind the names that do not compare higher than it.
RECURSIVE InsertName(_, _)
InsertName(sorted, n) ==
    IF sorted = << >> THEN << n >>
    ELSE IF NaturalSort(n, Head(sorted)) < 0 THEN << n >> \o sorted
    ELSE << Head(sorted) >> \o InsertName(Tail(sorted), n)

RECURSIVE SortNames(_)
SortNames(ns) ==
    IF ns = << >> THEN << >>
    ELSE InsertName(SortNames(SubSeq(ns, 1, Len(ns) - 1)), ns[Len(ns)])

\* The same with the comparison of folder records by name.
RECURSIVE InsertFolder(_, _)
InsertFolder(sorted, r) ==
    IF sorted = << >> THEN << r >>
    ELSE IF LocaleCompare(r.name, Head(sorted).name) < 0 THEN << r >> \o sorted
    ELSE << Head(sorted) >> \o InsertFolder(Tail(sorted), r)

RECURSIVE SortFolders(_)
SortFolders(rs) ==
    IF rs = << >> THEN << >>
    ELSE InsertFolder(SortFolders(SubSeq(rs, 1, Len(rs) - 1)), rs[Len(rs)])

----
\* generateIndex (generate-index.js:84-147)

\* Most entries of the content root, and of folder j, in a content tree.
MaxRoot == 2
MaxFiles == 3

\* The sequences of at most n different elements of S.
SeqsNoDup(S, n) ==
    { q \in UNION { [1..k -> S] : k \in 0..n } :
          \A i, j \in 1..Len(q) : i # j => q[i] # q[j] }

\* index.json as a directory.
IndexJsonDir == [name |-> << "i", "n", "d", "e", "x", ".", "j", "s", "o", "n" >>,
                 kind |-> "dir", listable |-> TRUE]

\* 'index.json', the entry of the content root that the indexer itself writes.
IndexJson == [name |-> << "i", "n", "d", "e", "x", ".", "j", "s", "o", "n" >>,
              kind |-> "file", listable |-> FALSE]

\* What the content root may hold: folders j, M and x, of which x cannot be
\* listed, a hidden folder, and a Markdown file.
RootCandidates ==
    { [name |-> << "j" >>, kind |-> "dir", listable |-> TRUE],
      [name |-> << "M" >>, kind |-> "dir", listable |-> TRUE],
      [name |-> << "x" >>, kind |-> "dir", listable |-> FALSE],
      [name |-> << ".", "h" >>, kind |-> "dir", listable |-> TRUE],
      [name |-> << "r" >> \o MdExt, kind |-> "file", listable |-> FALSE] }

\* What a folder may hold: Markdown files with or without a heading, one that
\* cannot be read, a directory whose name ends in '.md', a text file.
FileCandidates ==
    { [name |-> << "f", "2" >> \o MdExt, kind |-> "file", readable |-> TRUE,
       content |-> << "#", " ", "T" >>],
      [name |-> << "f", "1", "0" >> \o MdExt, kind |-> "file", readable |-> TRUE,
       content |-> << "#", "#", " ", "s" >>],
      [name |-> << "G", "1" >> \o MdExt, kind |-> "file", readable |-> TRUE,
       content |-> << "t", "\n", " ", "#", " ", "U", " ", "\n", "#", " ", "V" >>],
      [name |-> << "u" >> \o MdExt, kind |-> "file", readable |-> FALSE,
       content |-> << >>],
      [name |-> << "d" >> \o MdExt, kind |-> "dir", readable |-> FALSE,
       content |-> << >>],
      [name |-> << "n", ".", "t", "x", "t" >>, kind |-> "file", readable |-> TRUE,
       content |-> << "#", " ", "N" >>] }

\* The one Markdown file of the folders other than j.
OnlyFile ==
    [name |-> << "a" >> \o MdExt, kind |-> "file", readable |-> TRUE,
     content |-> << "#", " ", "A" >>]

\* Which operation of the run fails: none, the listing of the content root,
\* or the write of index.json.
Envs == {"ok", "noRoot", "noWrite"}

\* generate-index.js:89: fs.readdirSync(CONTENT_DIR, { withFileTypes: true }).
RootEntries == root \o (IF indexFile.exists THEN << IndexJson >> ELSE << >>)

\* generate-index.js:97: fs.readdirSync(folderPath), the entries behind the names.
Entries(folder) == IF folder = << "j" >> THEN listing ELSE << OnlyFile >>

Names(es) == [i \in 1..Len(es) |-> es[i].name]

\* The entry of the folder that has the name.
EntryNamed(folder, name) ==
    LET es == Entries(folder)
    IN es[CHOOSE i \in 1..Len(es) : es[i].name = name]

\* generate-index.js:97-99: the names of the folder that end in '.md', sorted.
MdFiles(folder) ==
    SortNames(SelectSeq(Names(Entries(folder)), LAMBDA n : EndsWith(n, MdExt)))

\* The record of one name with the file name alone for path.
FileRecordNoFolder(folder, name) ==
    LET e == EntryNamed(folder, name)
        t == ExtractTitle([name |-> e.name, readable |-> e.readable,
                           content |-> e.content])
    IN [name |-> name, path |-> name, title |-> t.value, threw |-> t.threw]

\* generate-index.js:101-111: the record of one name; path.relative(CONTENT_DIR,
\* filePath) is the folder name, '/', the file name.
FileRecord(folder, name) ==
    LET e == EntryNamed(folder, name)
        t == ExtractTitle([name |-> e.name, readable |-> e.readable,
                           content |-> e.content])
    IN [name |-> name,
        path |-> folder \o << "/" >> \o name,
        title |-> t.value,
        threw |-> t.threw]

RECURSIVE FileRecordsOf(_, _)
FileRecordsOf(folder, names) ==
    IF names = << >> THEN << >>
    ELSE << FileRecord(folder, Head(names)) >> \o FileRecordsOf(folder, Tail(names))

FileRecords(folder) == FileRecordsOf(folder, MdFiles(folder))

\* The test without the check of the leading dot.
IsScannedHidden(e) == e.kind = "dir"

\* generate-index.js:92: entry.isDirectory() && !entry.name.startsWith('.').
IsScanned(e) == e.kind = "dir" /\ ~StartsWith(e.name, << "." >>)

Scanned == SelectSeq(RootEntries, IsScanned)

\* What a directory inside a folder holds: one Markdown file.
NestedEntries(e) == IF e.kind = "dir" THEN << OnlyFile >> ELSE << >>

\* The records scanDirectory (generate-index.js:51-79) would add for the
\* directories inside a folder: it descends into every directory that is not
\* hidden and collects the Markdown files there.
RECURSIVE NestedRecords(_, _)
NestedRecords(folder, es) ==
    IF es = << >> THEN << >>
    ELSE (IF Head(es).kind = "dir" /\ ~StartsWith(Head(es).name, << "." >>)
          THEN [k \in 1..Len(NestedEntries(Head(es))) |->
                   LET n == NestedEntries(Head(es))[k]
                   IN [name |-> n.name,
                       path |-> folder \o << "/" >> \o Head(es).name \o << "/" >> \o n.name,
                       title |-> ExtractTitle([name |-> n.name, readable |-> n.readable,
                                               content |-> n.content]).value,
                       threw |-> FALSE]]
          ELSE << >>)
         \o NestedRecords(folder, Tail(es))

\* The scan of one folder that goes down into its directories.
FolderScanDeep(e) ==
    IF e.listable
    THEN [name |-> e.name, threw |-> FALSE,
          files |-> FileRecords(e.name) \o NestedRecords(e.name, Entries(e.name))]
    ELSE [name |-> e.name, threw |-> TRUE, files |-> << >>]

\* generate-index.js:93-111: the scan of one folder.  readdirSync throws for
\* a folder that cannot be listed.
FolderScan(e) ==
    IF e.listable
    THEN [name |-> e.name, threw |-> FALSE, files |-> FileRecords(e.name)]
    ELSE [name |-> e.name, threw |-> TRUE, files |-> << >>]

RECURSIVE ScanAll(_)
ScanAll(es) ==
    IF es = << >> THEN << >> ELSE << FolderScan(Head(es)) >> \o ScanAll(Tail(es))

\* generate-index.js:113-119: the record of a folder.
RECURSIVE Pushed(_)
Pushed(frs) ==
    IF frs = << >> THEN << >>
    ELSE << [name |-> Head(frs).name, path |-> Head(frs).path,
             title |-> Head(frs).title] >> \o Pushed(Tail(frs))

FolderRecord(sc) ==
    [name |-> sc.name, path |-> sc.name, files |-> Pushed(sc.files)]

RECURSIVE FolderRecords(_)
FolderRecords(scans) ==
    IF scans = << >> THEN << >>
    ELSE (IF Len(Head(scans).files) > 0 THEN << FolderRecord(Head(scans)) >> ELSE << >>)
         \o FolderRecords(Tail(scans))

\* generate-index.js:91-121, 124: the folders with at least one file record,
\* sorted by name.
BuildIndex(scans) == SortFolders(FolderRecords(scans))

\* A scan in which no exception is ever raised.
ScanNeverThrows(scans) == FALSE

\* An exception reaches the catch block of generateIndex before the write:
\* the content root or a scanned folder cannot be listed, or extractTitle threw.
ScanThrows(scans) ==
    \/ env = "noRoot"
    \/ \E k \in 1..Len(scans) :
          \/ scans[k].threw
          \/ \E i \in 1..Len(scans[k].files) : scans[k].files[i].threw

\* JSON.stringify of a string: the characters between quotes.
Quoted(str) == << "\"" >> \o str \o << "\"" >>

\* The members of an array or object with commas between them.
RECURSIVE Joined(_)
Joined(ss) ==
    IF ss = << >> THEN << >>
    ELSE IF Len(ss) = 1 THEN Head(ss)
    ELSE Head(ss) \o << "," >> \o Joined(Tail(ss))

Member(key, text) == Quoted(key) \o << ":" >> \o text

\* generate-index.js:127: JSON.stringify(index, null, 2), white space left out.
StringifyFile(f) ==
    << "{" >> \o Joined(<< Member(<< "name" >>, Quoted(f.name)),
                            Member(<< "path" >>, Quoted(f.path)),
                            Member(<< "title" >>, Quoted(f.title)) >>) \o << "}" >>

StringifyFolder(r) ==
    << "{" >> \o Joined(<< Member(<< "name" >>, Quoted(r.name)),
                            Member(<< "path" >>, Quoted(r.path)),
                            Member(<< "files" >>,
                                << "[" >>
                                \o Joined([k \in 1..Len(r.files) |-> StringifyFile(r.files[k])])
                                \o << "]" >>) >>) \o << "}" >>

Stringify(ix) ==
    << "[" >> \o Joined([k \in 1..Len(ix) |-> StringifyFolder(ix[k])]) \o << "]" >>

\* index.json as a run over a content root without folders left it.
OldIndexFile == [exists |-> TRUE, text |-> Stringify(<< >>)]

\* The content trees and the failing operation the indexer starts with.  A
\* content root that cannot be listed is left empty, and so is a folder j that
\* is not in the content root: nothing reads them.  index.json may be there
\* from an earlier run.
IdxInit ==
    /\ WorkerIdle
    /\ file = NoFile
    /\ title = NoTitle
    /\ root \in SeqsNoDup(RootCandidates, MaxRoot)
    /\ listing \in IF \E i \in 1..Len(root) : root[i].name = << "j" >>
                   THEN SeqsNoDup(FileCandidates, MaxFiles)
                   ELSE { << >> }
    /\ env \in IF root = << >> THEN Envs ELSE Envs \ {"noRoot"}
    /\ index = << >>
    /\ indexFile \in {NoIndexFile, OldIndexFile}
    /\ exitCode = NoExit
    /\ ixPc = "idle"

\* generate-index.js:84-147: one run of the script, from the scan to the
\* exit.  An exception anywhere in the try block ends the run with
\* process.exit(1); the file is written only when the scan and the sort are done.
GenerateIndex ==
    /\ ixPc \in {"idle", "ran"}
    /\ ixPc' = IF ixPc = "idle" THEN "ran" ELSE "reran"
    /\ LET scans == ScanAll(Scanned)
           built == BuildIndex(scans)
       IN IF ScanThrows(scans)
          THEN /\ index' = << >>
               /\ exitCode' = 1
               /\ UNCHANGED indexFile
          ELSE /\ index' = built
               /\ IF env = "noWrite"
                  THEN exitCode' = 1 /\ UNCHANGED indexFile
                  ELSE /\ indexFile' = [exists |-> TRUE, text |-> Stringify(built)]
                       /\ exitCode' = 0
    /\ UNCHANGED << swVars, evVars, file, title, root, listing, env >>

IdxNext == GenerateIndex

IdxSpec == IdxInit /\ [][IdxNext]_vars

----
\* Properties

\* C1: when the install handler of a generation has completed successfully,
\* the store named by its CACHE_NAME exists and holds an entry for every URL
\* of CACHE_FILES.
C1_InstalledHoldsManifest ==
    \A g \in Gens :
        lifecycle[g] = "installed" =>
            /\ Exists(CACHE_NAME(g))
            /\ \A u \in CACHE_FILES : UrlKey(u) \in DOMAIN stores[CACHE_NAME(g)]

C1_Witness == \E g \in Gens : lifecycle[g] = "installed" /\ skipWaitingCalled[g]

\* C2: at the step that completes the activate handler of generation g, no
\* store with a name other than CACHE_NAME(g) exists.
C2_ActivateLeavesOnlyOwnStore ==
    [][ \A g \in Gens :
            (lifecycle[g] = "activating" /\ lifecycle'[g] = "activated")
                => Range(cacheNames') \subseteq {CACHE_NAME(g)} ]_vars

\* C3: once the newest deployed generation is activated, at most one store
\* exists, and it is that generation's.
C3_AtMostOneStoreAfterActivation ==
    \A g \in Gens :
        (lifecycle[g] = "activated" /\ \A h \in Gens : h > g => lifecycle[h] = "parsed")
            => Len(cacheNames) <= 1 /\ Range(cacheNames) \subseteq {CACHE_NAME(g)}

C5_StoredBeforeReturned ==
    \A f \in Fetches :
        (f.settled = "resolved" /\ f.hits = {} /\ f.net.status = 200 /\ f.net.type = "basic")
            => /\ Exists(CACHE_NAME(f.gen))
               /\ Key(f.req) \in DOMAIN stores[CACHE_NAME(f.gen)]

\* C5 as amended: on a miss with a 200/basic network response the handler
\* returns that response with the write of its clone started but not awaited
\* (caches.open pending, then cache.put pending); the entry is in the store of
\* the handling generation when the put takes effect on a store that still
\* exists.
C5_WriteStartedNotAwaited ==
    /\ [](\A f \in Fetches :
            (f.net.status = 200 /\ f.net.type = "basic")
                => /\ f.hits = {}
                   /\ f.settled = "resolved"
                   /\ f.response = f.net
                   /\ f.pc \in {"open", "put", "done"}
                   /\ f.cacheWrites = IF f.pc = "done" THEN 1 ELSE 0)
    /\ [][ \A f \in Fetches :
            ( /\ f.pc = "put"
              /\ fetches' = Advance(f, [f EXCEPT !.cacheWrites = @ + 1, !.pc = "done"])
              /\ Live(CACHE_NAME(f.gen), f.handle) )
                => /\ Key(f.req) \in DOMAIN stores'[CACHE_NAME(f.gen)]
                   /\ stores'[CACHE_NAME(f.gen)][Key(f.req)] = f.response ]_vars

C5_Witness ==
    \E f \in Fetches :
        /\ f.net.status = 200 /\ f.net.type = "basic"
        /\ f.pc = "done"
        /\ Exists(CACHE_NAME(f.gen))
        /\ Key(f.req) \in DOMAIN stores[CACHE_NAME(f.gen)]
        /\ stores[CACHE_NAME(f.gen)][Key(f.req)] = f.response

C8_FailedInstallNeverActivates ==
    \A g \in Gens :
        installFailed[g]
            => /\ ~skipWaitingCalled[g]
               /\ lifecycle[g] = "redundant"
               /\ wpc[g] = "done"
               /\ active # g

C8_Witness ==
    \E g \in Gens :
        /\ installFailed[g]
        /\ active \in Gens
        /\ active < g
        /\ lifecycle[active] = "activated"

\* C9: an intercepted document request that missed the cache and whose
\* network fetch failed is answered with an entry held under /index.html,
\* never with undefined.
C9_NavigationFallsBackToShell ==
    \A f \in Fetches :
        (f.req.destination = "document" /\ f.net = NetError)
            => /\ f.hits = {}
               /\ f.pc \in {"fallback", "done"}
               /\ f.pc = "done"
                    => /\ f.settled = "resolved"
                       /\ f.response # Undefined
                       /\ f.response \in f.shellHits

C9_Witness ==
    \E f \in Fetches :
        /\ f.req.destination = "document"
        /\ f.net = NetError
        /\ f.pc = "done"
        /\ f.response.status = 200

\* C10 as stated: for an intercepted request that is no document, missed the
\* cache and failed on the network, the promise given to respondWith is
\* rejected.
C10_SubresourceFailureRejects ==
    \A f \in Fetches :
        (f.respondWith /\ f.req.destination # "document" /\ f.net = NetError)
            => f.settled = "rejected"

\* C10 as amended: that promise is fulfilled with undefined (the catch
\* callback returns nothing), not rejected.
C10_SubresourceFailureFulfilsUndefined ==
    \A f \in Fetches :
        (f.respondWith /\ f.req.destination # "document" /\ f.net = NetError)
            => /\ f.hits = {}
               /\ f.pc = "done"
               /\ f.settled = "resolved"
               /\ f.response = Undefined

C10_Witness ==
    \E f \in Fetches :
        /\ f.respondWith
        /\ f.req.destination # "document"
        /\ f.net = NetError
        /\ f.pc = "done"

\* C11: a network response of a miss whose status is not 200 or whose type is
\* not "basic" is returned as it is and written to no store; every entry of
\* every store is a 200/basic response.
C11_UncacheableReturnedUnstored ==
    /\ \A f \in Fetches :
        (f.net \in NetResponses /\ (f.net.status # 200 \/ f.net.type # "basic"))
            => /\ f.pc = "done"
               /\ f.settled = "resolved"
               /\ f.response = f.net
               /\ f.cacheWrites = 0
    /\ \A n \in StoreNames :
        \A k \in DOMAIN stores[n] :
            stores[n][k].status = 200 /\ stores[n][k].type = "basic"

C11_Witness ==
    /\ \E f \in Fetches : f.net.status = 404 /\ f.pc = "done"
    /\ \E f \in Fetches : f.net.type = "cors" /\ f.pc = "done"

\* C14: an intercepted request for a content file goes to the network first;
\* a cached copy is served only when the network fetch failed.
C14_ContentNetworkFirst ==
    \A f \in Fetches :
        (f.respondWith /\ f.req.path = "/content/a.md" /\ f.pc = "done")
            => /\ f.netFetches = 1
               /\ f.response \in f.hits => f.net = NetError

\* C15: with the network unavailable, every intercepted request (the shell,
\* a content file) of an activated generation is answered from the cache.
C15_WorksOffline ==
    \A f \in Fetches :
        (f.respondWith /\ f.pc = "done" /\ f.net \in {NoFetch, NetError})
            => /\ f.response # Undefined
               /\ f.response \in (f.hits \cup f.shellHits)

\* C12: a sync event tagged 'sync-content' fetches /content/index.json once and
\* puts the response under that key in the worker's cache exactly when the
\* response is successful; a failed fetch or an unsuccessful response leaves
\* every cache entry as it was and the handler's promise still resolves; a sync
\* event with another tag does nothing.
C12_SyncOutcome ==
    \A e \in Syncs :
        /\ e.tag # "sync-content" =>
              /\ e.pc = "ignored" /\ ~e.waitUntil
              /\ e.cacheOpens = 0 /\ e.netFetches = 0 /\ e.cacheWrites = 0
        /\ e.netFetches <= 1 /\ e.cacheWrites <= 1
        /\ e.settled # "rejected"
        /\ (e.tag = "sync-content" /\ e.pc = "done") =>
              /\ e.netFetches = 1
              /\ e.settled = "resolved"
              /\ e.cacheWrites = 1 <=>
                    (e.net \in NetResponses /\ e.net.status \in 200..299)

C12_SyncStep ==
    syncs' # syncs =>
        \/ stores' = stores
        \/ \E e \in Syncs :
              /\ e.tag = "sync-content"
              /\ e.net \in NetResponses /\ e.net.status \in 200..299
              /\ stores' = [stores EXCEPT ![CACHE_NAME(e.gen)] =
                                (UrlKey("/content/index.json") :> e.net) @@ @]
              /\ \E e2 \in BagToSet(syncs') : e2.gen = e.gen /\ e2.cacheWrites = 1

C13_PushToleratesMissingFields ==
    push.handled =>
        /\ ~push.threw
        /\ push.shown
        /\ push.title # "undefined"
        /\ push.body # ""

\* C17: for a readable Markdown file, extractTitle returns the trimmed text
\* after the leading '# ' of the first line whose trimmed text starts with
\* '# '; lines before it and after it, later '# ' lines included, have no
\* effect.
C17_TitleIsFirstHeading ==
    (title.done /\ file.readable) =>
        \A i \in 1..Len(Split(file.content)) :
            LET lines == Split(file.content)
                t == Trim(lines[i])
            IN (/\ StartsWith(t, HeadingMark)
                /\ \A j \in 1..(i - 1) : ~StartsWith(Trim(lines[j]), HeadingMark))
                   => title.value = Trim(SubSeq(t, 3, Len(t)))

\* A file with text before the first heading and a second heading after it.
C17_Witness ==
    /\ title.done /\ file.readable
    /\ \E i, j \in 1..Len(Split(file.content)) :
          /\ 1 < i /\ i < j
          /\ IsHeading(Split(file.content)[i])
          /\ IsHeading(Split(file.content)[j])
          /\ HeadingText(Split(file.content)[i]) # HeadingText(Split(file.content)[j])
          /\ title.value = HeadingText(Split(file.content)[i])

\* C18: for a readable Markdown file with no line whose trimmed text starts
\* with '# ', the title is the file name with '.md' removed.
C18_TitleIsNameWithoutExt ==
    (/\ title.done /\ file.readable
     /\ \A i \in 1..Len(Split(file.content)) :
            ~StartsWith(Trim(Split(file.content)[i]), HeadingMark))
        => title.value \o MdExt = file.name

\* C18, amended: ... the title is the file name with '.md' removed, except for
\* the file named '.md' itself, whose title is '.md'.
C18_TitleIsBasename ==
    (/\ title.done /\ file.readable
     /\ \A i \in 1..Len(Split(file.content)) :
            ~StartsWith(Trim(Split(file.content)[i]), HeadingMark))
        => IF file.name = MdExt
           THEN title.value = MdExt
           ELSE title.value \o MdExt = file.name

\* A file whose only heading is a '##' heading, under a name longer than '.md'.
C18_Witness ==
    /\ title.done /\ file.readable
    /\ file.name # MdExt
    /\ \E i \in 1..Len(Split(file.content)) :
          StartsWith(Trim(Split(file.content)[i]), << "#", "#", " " >>)
    /\ title.value \o MdExt = file.name

\* The names of the folder records of the index.
IndexedFolders == { index[k].name : k \in 1..Len(index) }

\* The file records of the folder j in the index (none when j is not in it).
FilesOfJ ==
    IF << "j" >> \in IndexedFolders
    THEN index[CHOOSE k \in 1..Len(index) : index[k].name = << "j" >>].files
    ELSE << >>

\* What a directory of the content root directly contains.
Contains(dirName) == IF dirName = << "j" >> THEN Range(listing) ELSE {OnlyFile}

SmallerNumber(a, b) ==
    \E i \in 0..(Len(a) - 1) :
        /\ i < Len(b)
        /\ IsDigit(a[i + 1]) /\ IsDigit(b[i + 1])
        /\ i > 0 => ~IsDigit(a[i])
        /\ SubSeq(a, 1, i) = SubSeq(b, 1, i)
        /\ \E la \in 1..(Len(a) - i), lb \in 1..(Len(b) - i) :
              /\ \A k \in (i + 1)..(i + la) : IsDigit(a[k])
              /\ \A k \in (i + 1)..(i + lb) : IsDigit(b[k])
              /\ i + la < Len(a) => ~IsDigit(a[i + la + 1])
              /\ SubSeq(a, i + la + 1, Len(a)) = SubSeq(b, i + lb + 1, Len(b))
              /\ NumVal(SubSeq(a, i + 1, i + la)) < NumVal(SubSeq(b, i + 1, i + lb))

\* C20: within a folder record the files are in natural order of name: of two
\* files whose names differ only in an embedded number the one with the
\* smaller number comes first (f2.md before f10.md), and names that begin with
\* different letters are in alphabetical order whatever the case of the letters.
C20_FilesInNaturalOrder ==
    \A r \in Range(index) : \A p, q \in 1..Len(r.files) :
        LET a == r.files[p].name
            b == r.files[q].name
        IN /\ (p # q /\ SmallerNumber(a, b)) => p < q
           /\ (/\ ~IsDigit(a[1]) /\ ~IsDigit(b[1])
               /\ IndexIn(Lowers, ToLower(a[1])) < IndexIn(Lowers, ToLower(b[1])))
                  => p < q

\* f2.md, f10.md and G1.md listed in another order and indexed in this one.
C20_Witness ==
    /\ Len(FilesOfJ) = 3
    /\ FilesOfJ[1].name = << "f", "2", ".", "m", "d" >>
    /\ FilesOfJ[2].name = << "f", "1", "0", ".", "m", "d" >>
    /\ FilesOfJ[3].name = << "G", "1", ".", "m", "d" >>
    /\ listing[1].name = << "G", "1", ".", "m", "d" >>
    /\ listing[2].name = << "f", "1", "0", ".", "m", "d" >>

\* C21: the folder records of the index are in plain lexicographic order of
\* their names, code unit by code unit, names that differ in letter case
\* included.
C21_FoldersInCodeUnitOrder ==
    \A p, q \in 1..Len(index) :
        p < q => CodeUnitSort(index[p].name, index[q].name) < 0

\* a comes before b in the alphabet whatever the case of their letters: at the
\* first place where they differ but for case, a has the earlier letter.
AlphabeticallyBefore(a, b) ==
    \E i \in 1..Len(a) :
        /\ i <= Len(b)
        /\ \A m \in 1..(i - 1) : ToLower(a[m]) = ToLower(b[m])
        /\ IndexIn(Lowers, ToLower(a[i])) # 0
        /\ IndexIn(Lowers, ToLower(a[i])) < IndexIn(Lowers, ToLower(b[i]))

\* C21, amended: the folder records are in the alphabetical order of
\* localeCompare, in which letter case does not decide between different
\* letters: 'java' comes before 'MultiThreading'.
C21_FoldersInAlphabeticalOrder ==
    \A p, q \in 1..Len(index) :
        p < q => AlphabeticallyBefore(index[p].name, index[q].name)

\* Folders M and j, listed in this order and indexed in the other.
C21_Witness ==
    /\ Len(index) = 2
    /\ Len(root) = 2
    /\ root[1].name = << "M" >>
    /\ index[1].name = << "j" >>
    /\ index[2].name = << "M" >>

\* C22: a second run over the unchanged content tree ends like the first and
\* leaves index.json byte for byte as the first run wrote it; the index.json
\* that is now in the content root makes no difference.
C22_SecondRunWritesTheSame ==
    [][(ixPc = "ran" /\ exitCode = 0)
          => (exitCode' = 0 /\ indexFile' = indexFile)]_vars

\* Two runs done, over a content root in which the first run, not an earlier
\* one, put index.json, and with folders in the index.
C22_Witness ==
    /\ ixPc = "reran" /\ exitCode = 0
    /\ index # << >>
    /\ indexFile.exists /\ indexFile # OldIndexFile

\* The content root, or a folder of it that the indexer lists, cannot be listed.
ListingFails ==
    \/ env = "noRoot"
    \/ \E d \in Range(root) : d.kind = "dir" /\ d.name[1] # "." /\ ~d.listable

\* C23: a run in which the listing of the content root or of a top-level
\* folder fails, or the write fails, ends with a non-zero exit status; a run
\* without failure ends with status 0 and index.json written; a run with a
\* listing failure leaves index.json as it was.
C23_ExitStatus ==
    ixPc # "idle" =>
        IF ListingFails \/ env = "noWrite"
        THEN exitCode # 0 /\ exitCode # NoExit
        ELSE exitCode = 0 /\ indexFile.exists /\ indexFile.text = Stringify(index)

C23_ListingFailureWritesNothing ==
    (ListingFails /\ ixPc' # ixPc) => indexFile' = indexFile

C23_FailurePolicy == [] C23_ExitStatus /\ [][C23_ListingFailureWritesNothing]_vars

\* A run that could not list a folder, next to a folder with Markdown files,
\* and the index.json of an earlier run still as it was.
C23_Witness ==
    /\ ixPc # "idle" /\ exitCode = 1 /\ env = "ok"
    /\ indexFile = OldIndexFile
    /\ \E d \in Range(root) : d.kind = "dir" /\ ~d.listable
    /\ \E d \in Range(root) : d.name = << "j" >>
    /\ \E f \in Range(listing) : EndsWith(f.name, MdExt)

\* C24: every folder record has its name for path; every file record has the
\* name of an entry of its folder, the path '<folder name>/<file name>' and the
\* title extractTitle gives for that entry.  A folder j with f2.md, headed
\* '# T', and G1.md, whose first heading is '# U', is indexed as one folder
\* 'j' with these two entries in this order and the titles T and U.
C24_RecordFields ==
    /\ \A r \in Range(index) :
          /\ r.path = r.name
          /\ DOMAIN r = {"name", "path", "files"}
          /\ \A k \in 1..Len(r.files) :
                /\ DOMAIN r.files[k] = {"name", "path", "title"}
                /\ \E e \in Contains(r.name) :
                      /\ r.files[k].name = e.name
                      /\ r.files[k].path = r.name \o << "/" >> \o e.name
                      /\ r.files[k].title =
                            ExtractTitle([name |-> e.name, readable |-> e.readable,
                                          content |-> e.content]).value
    /\ (/\ ixPc # "idle" /\ exitCode = 0
        /\ Names(root) = << << "j" >> >>
        /\ Range(Names(listing)) = { << "f", "2", ".", "m", "d" >>,
                                     << "G", "1", ".", "m", "d" >> })
          => index = << [name |-> << "j" >>,
                         path |-> << "j" >>,
                         files |-> << [name |-> << "f", "2", ".", "m", "d" >>,
                                       path |-> << "j", "/", "f", "2", ".", "m", "d" >>,
                                       title |-> << "T" >>],
                                      [name |-> << "G", "1", ".", "m", "d" >>,
                                       path |-> << "j", "/", "G", "1", ".", "m", "d" >>,
                                       title |-> << "U" >>] >>] >>

\* The folder j with G1.md and f2.md, listed in this order, and indexed.
C24_Witness ==
    /\ ixPc # "idle" /\ exitCode = 0
    /\ Names(root) = << << "j" >> >>
    /\ Names(listing) = << << "G", "1", ".", "m", "d" >>, << "f", "2", ".", "m", "d" >> >>
    /\ Len(index) = 1 /\ Len(index[1].files) = 2

\* The number of '/' in a path.
RECURSIVE Slashes(_)
Slashes(path) ==
    IF path = << >> THEN 0
    ELSE (IF Head(path) = "/" THEN 1 ELSE 0) + Slashes(Tail(path))

C26_EntriesAreRegularFiles ==
    \A r \in Range(index) : \A k \in 1..Len(r.files) :
        \E e \in Contains(r.name) : e.name = r.files[k].name /\ e.kind = "file"

\* C27: fetch events for the same same-origin GET URL that all miss the cache
\* each make their own network fetch and their own cache write.  Every such
\* write replaces the entry of the key by the response of the fetch that makes
\* it, so that after two writes into the store the one entry of the key is the
\* response of the put that came last, never anything neither fetched.
C27_OwnFetchOwnWrite ==
    /\ \A f \in Fetches :
          (f.pc = "done" /\ f.cacheWrites = 1) =>
              /\ f.hits = {} /\ f.netFetches = 1
              /\ f.net \in NetResponses
    /\ \A f1, f2 \in Fetches :
          LET n == CACHE_NAME(f1.gen)
              k == Key(f1.req)
              \* the fetch events that have written k into the store as it is
              writers == { f \in Fetches :
                             /\ f.gen = f1.gen /\ Key(f.req) = k
                             /\ f.pc = "done" /\ f.cacheWrites = 1
                             /\ f.handle = epoch[n] }
          IN (/\ f1 \in writers /\ f2 \in writers
              /\ n \in Range(cacheNames)
              /\ (f1 # f2 \/ CopiesIn(f1, fetches) >= 2))
                 => /\ k \in DOMAIN stores[n]
                    /\ stores[n][k] \in { f.net : f \in writers }

C27_PutReplaces ==
    \A f \in Fetches :
        LET n == CACHE_NAME(f.gen)
            k == Key(f.req)
        IN (/\ f.pc = "put"
            /\ fetches' = (fetches (-) SetToBag({f}))
                            (+) SetToBag({[f EXCEPT !.cacheWrites = 1, !.pc = "done"]})
            /\ n \in Range(cacheNames) /\ epoch[n] = f.handle)
               => /\ k \in DOMAIN stores'[n]
                  /\ stores'[n][k] = f.net
                  /\ \A j \in DOMAIN stores[n] \ {k} :
                        j \in DOMAIN stores'[n] /\ stores'[n][j] = stores[n][j]

C27_LastWriteWins == [] C27_OwnFetchOwnWrite /\ [][C27_PutReplaces]_vars

\* Two fetches of one URL that both missed, got different responses and both
\* wrote into the store, which holds one of the two.
C27_Witness ==
    \E f1, f2 \in Fetches :
        /\ f1.gen = f2.gen /\ f1.req = f2.req
        /\ f1.net # f2.net
        /\ f1.pc = "done" /\ f2.pc = "done"
        /\ f1.cacheWrites = 1 /\ f2.cacheWrites = 1
        /\ CACHE_NAME(f1.gen) \in Range(cacheNames)
        /\ f1.handle = epoch[CACHE_NAME(f1.gen)] /\ f2.handle = epoch[CACHE_NAME(f1.gen)]
        /\ stores[CACHE_NAME(f1.gen)][Key(f1.req)] = f2.net

\* C28: a fetch event that finds a cache hit leaves every store unchanged, and
\* so no step of a fetch event ever replaces a response that is stored.
C28_FetchNeverReplaces ==
    [][fetches' # fetches =>
          \A n \in StoreNames : \A k \in DOMAIN stores[n] :
              k \in DOMAIN stores'[n] /\ stores'[n][k] = stores[n][k]]_vars

\* C28, amended: a fetch event that finds a cache hit writes nothing; a step of
\* a fetch event changes the stores only as the put of an event that had
\* missed the cache, which sets the entry of its key to its own network
\* response, replacing what an overlapping miss for the same URL stored first.
C28_HitWritesNothing ==
    \A f \in Fetches :
        f.hits # {} => f.cacheWrites = 0 /\ f.netFetches = 0 /\ f.pc = "done"

C28_OnlyMissesWrite ==
    fetches' # fetches =>
        \/ stores' = stores
        \/ \E f \in Fetches :
              /\ f.pc = "put" /\ f.hits = {} /\ f.net \in NetResponses
              /\ stores' = [stores EXCEPT ![CACHE_NAME(f.gen)] = (Key(f.req) :> f.net) @@ @]

C28_HitLeavesStoresAlone == [] C28_HitWritesNothing /\ [][C28_OnlyMissesWrite]_vars

\* A fetch answered from the entry that an earlier fetch of the same URL stored.
C28_Witness ==
    \E f1, f2 \in Fetches :
        /\ f1.cacheWrites = 1 /\ f1.pc = "done"
        /\ f2.req = f1.req /\ f2.pc = "done"
        /\ f2.hits = {f1.net} /\ f2.response = f1.net
        /\ f2.cacheWrites = 0

\* C29: from the start of the activate handler of a generation to its end,
\* every entry of the store named by its CACHE_NAME stays, with the same
\* response.
C29_OwnStoreKeptDuringActivation ==
    [][\A g \in Gens :
          lifecycle[g] = "activating" =>
              \A k \in DOMAIN stores[CACHE_NAME(g)] :
                  /\ k \in DOMAIN stores'[CACHE_NAME(g)]
                  /\ stores'[CACHE_NAME(g)][k] = stores[CACHE_NAME(g)][k]]_vars

\* A generation activated after its handler deleted the store of the one
\* before, with every manifest entry still in its own store.
C29_Witness ==
    \E g \in Gens :
        /\ g > 1
        /\ lifecycle[g] = "activated"
        /\ epoch[CACHE_NAME(g - 1)] > 0
        /\ CACHE_NAME(g - 1) \notin Range(cacheNames)
        /\ CACHE_NAME(g) \in Range(cacheNames)
        /\ \A u \in CACHE_FILES : UrlKey(u) \in DOMAIN stores[CACHE_NAME(g)]

\* C30: every cache hit that the fetch handler of a generation returns, for
\* the request or for the shell at fallback, is the entry of the store named by
\* that generation's CACHE_NAME.
C30_HitsFromOwnStore ==
    [][\A f \in Fetches : \A f2 \in BagToSet(fetches') :
          (/\ f.pc \in {"match", "fallback"}
           /\ fetches' = (fetches (-) SetToBag({f})) (+) SetToBag({f2})
           /\ f2.pc = "done" /\ f2.response # Undefined)
              => LET k == IF f.pc = "match" THEN Key(f.req) ELSE UrlKey("/index.html")
                     n == CACHE_NAME(f.gen)
                 IN /\ n \in Range(cacheNames)
                    /\ k \in DOMAIN stores[n]
                    /\ stores[n][k] = f2.response]_vars

====
